---- MODULE Spec2Model ----
(***************************************************************************)
(* LatentDynamicsModel (src/models/CommonDynamics.py): the train /         *)
(* validation / test step logic of a latent dynamics model, and the        *)
(* persistence of the test artifacts.                                      *)
(*                                                                         *)
(* Tensors are modelled by what the step logic reads of them: the length   *)
(* of their time dimension, and their presence in a step's output record.  *)
(***************************************************************************)
EXTENDS Integers, Sequences, FiniteSets, TLC

VARIABLES
    args,       \* self.args: the user arguments the handlers read
    window,     \* locals of the last get_step_outputs call (window sampling)
    n_updates,  \* self.n_updates: the global update counter
    elbo,       \* locals of the last step's loss composition
    loader,     \* batches per epoch of the training / validation dataloaders
    current_epoch,  \* self.current_epoch
    version_path,   \* whether self.version_path has been set
    fit,        \* whether on_train_start has run
    val,        \* this epoch's validation loop: "idle", "running" or "done"
    train_outputs,  \* outputs of this epoch's training steps
    val_outputs,    \* outputs of the running validation loop's steps
    test_outputs,   \* outputs of the test steps
    images_dir, \* lightning_logs/version_<top>/images/: exists, files
    plots,      \* number of model_specific_plotting calls
    experiments,    \* files of the last copy to experiments/<exptype>/
    stacked,    \* test_epoch_end's concatenated arrays
    raised,     \* the exception that ended the run, if any
    metrics,    \* test_epoch_end's metrics dictionary
    output_dir, \* <ckpt_path>/test_<dataset>/: exists, files
    gaussian,   \* locals of the last Gaussian.forward call (utils/layers.py)
    procs       \* the processes running a directory-creating hook

ctlVars == <<loader, current_epoch, version_path, fit, val, train_outputs,
             val_outputs, test_outputs, images_dir, plots, experiments,
             stacked, raised>>

outVars == <<metrics, output_dir>>

sideVars == <<gaussian, procs>>

vars == <<args, window, n_updates, elbo, ctlVars, outVars, sideVars>>

notWindow == <<args, n_updates, elbo, ctlVars, outVars, sideVars>>
notElbo == <<args, window, ctlVars, outVars, sideVars>>

(***************************************************************************)
(* Bounds of the model.                                                    *)
(***************************************************************************)
MaxT == 26          \* longest sequence (images.shape[1]) of a batch
MaxAmort == 5       \* largest args.z_amort
MaxGen == 10        \* largest args.generation_len
MaxTerm == 2        \* largest loss term (likelihood, KL, auxiliary), in units
MaxBeta == 2        \* largest beta weight, in units
AnnealParts == 4    \* the annealing ramp is sampled at this many points
MaxStepsLoss == 2   \* training steps followed from each sampled counter
MaxBatches == 3     \* most batches per epoch of a dataloader
MaxSave == 2        \* largest args.batches_to_save
MaxEpoch == 10      \* last epoch the model follows
MaxLogInterval == 2 \* largest documented log_interval considered
BatchSize == 2      \* rows of a test batch
MaxMean == 2        \* the metric means drawn: 0..MaxMean steps above 1.234
MaxStd == 1         \* the metric deviations drawn: 0..MaxStd steps above 0.056

Min(a, b) == IF a < b THEN a ELSE b
Max(a, b) == IF a > b THEN a ELSE b

\* A local that was never assigned (the call raised before reaching it).
None == 0 - 1

(***************************************************************************)
(* Window sampling: get_step_outputs, and the generation length that       *)
(* training_step, validation_step and test_step hand to it.                *)
(***************************************************************************)

\* np.random.randint(low, high) draws from the half-open range [low, high);
\* an empty range (low >= high) raises ValueError.
RandIntClosed(low, high) == low .. high
RandInt(low, high) == low .. (high - 1)

\* The bounds handed to np.random.randint for random_start.
StartLowAmort(generation_len, z_amort) == z_amort
StartLow(generation_len, z_amort) == generation_len

StartHighNoAmort(T, generation_len, z_amort) == T - generation_len
StartHigh(T, generation_len, z_amort) == T - z_amort - generation_len

\* Length of the Python slice x[a:b] of a dimension of length n (0 <= a, b).
SliceLen(n, a, b) == Max(0, Min(n, b) - Min(n, a))

\* self(images, generation_len): the base class raises NotImplementedError;
\* a concrete dynamics model returns predictions over generation_len steps.
forward(concrete, generation_len) ==
    IF concrete THEN generation_len ELSE None

\* The outcomes of get_step_outputs(batch, generation_len) for a batch of
\* sequences of length T.
get_step_outputs(T, generation_len, z_amort, concrete) ==
    LET starts == RandInt(StartLow(generation_len, z_amort),
                          StartHigh(T, generation_len, z_amort))
        NoWindow == [random_start |-> None, images |-> None,
                     states |-> None, preds |-> None]
    IN  IF starts = {}
        THEN {[outcome |-> "ValueError"] @@ NoWindow}
        ELSE { LET sliced == SliceLen(T, s, s + generation_len + z_amort)
                   preds  == forward(concrete, generation_len)
               IN  IF preds = None
                   THEN [outcome |-> "NotImplementedError", random_start |-> s,
                         images |-> None, states |-> None, preds |-> None]
                   ELSE [outcome |-> "returned", random_start |-> s,
                         images |-> SliceLen(sliced, z_amort, sliced),
                         states |-> SliceLen(sliced, z_amort, sliced),
                         preds  |-> preds]
               : s \in starts }

\* training_step's generation length: fixed, or drawn in varying-length mode.
train_generation_lens(a) ==
    IF a.generation_varying THEN RandInt(1, a.generation_len)
    ELSE {a.generation_len}

NoCall == [step |-> "none", T |-> None, generation_len |-> None,
           outcome |-> "none", random_start |-> None, images |-> None,
           states |-> None, preds |-> None]

Called(step, T, generation_len, r) ==
    [step |-> step, T |-> T, generation_len |-> generation_len] @@ r

WindowArgs ==
    [z_amort : 1..MaxAmort, generation_len : 1..MaxGen,
     generation_validation_len : {1, MaxGen},
     generation_varying : BOOLEAN, concrete : BOOLEAN]

NoElbo == [step |-> "none", likelihood |-> None, klz |-> None,
           dynamics_loss |-> None, kl_factor |-> None, loss |-> None]

NoException == [handler |-> "none", exception |-> "none", line |-> 0]

\* The controller's state after construction, before any hook has run.
ConstructedCtl ==
    /\ current_epoch = 0
    /\ version_path = FALSE
    /\ fit = FALSE
    /\ val = "idle"
    /\ train_outputs = <<>>
    /\ val_outputs = <<>>
    /\ test_outputs = <<>>
    /\ images_dir = [exists |-> FALSE, files |-> {}]
    /\ plots = 0
    /\ experiments = {}
    /\ stacked = <<>>
    /\ raised = NoException

NoMetrics == <<>>

\* No Gaussian layer has been called, and no second process runs a hook.
NoForward == [called |-> FALSE]
NoProcs == <<>>
NoLayers ==
    /\ gaussian = NoForward
    /\ procs = NoProcs

NothingPersisted ==
    /\ metrics = NoMetrics
    /\ output_dir = [exists |-> FALSE, files |-> <<>>]

InitWindow ==
    /\ args \in WindowArgs
    /\ window = NoCall
    /\ n_updates = 0
    /\ elbo = NoElbo
    /\ loader = [train |-> 1, val |-> 1]
    /\ ConstructedCtl
    /\ NoLayers
    /\ NothingPersisted

\* A step starts with fresh locals: the window of one call does not depend
\* on the call before it.
training_step_window ==
    /\ window = NoCall
    /\ \E T \in 1..MaxT :
        \/ /\ train_generation_lens(args) = {}
           /\ window' = Called("training_step", T, None,
                               [outcome |-> "ValueError", random_start |-> None,
                                images |-> None, states |-> None, preds |-> None])
           /\ UNCHANGED notWindow
        \/ \E g \in train_generation_lens(args) :
           \E r \in get_step_outputs(T, g, args.z_amort, args.concrete) :
               /\ window' = Called("training_step", T, g, r)
               /\ UNCHANGED notWindow

validation_step_window ==
    /\ window = NoCall
    /\ \E T \in 1..MaxT :
       \E r \in get_step_outputs(T, args.generation_validation_len,
                                 args.z_amort, args.concrete) :
           /\ window' = Called("validation_step", T,
                               args.generation_validation_len, r)
           /\ UNCHANGED notWindow

\* test_step hands the fixed generation length to get_step_outputs.
test_step_window ==
    /\ window = NoCall
    /\ \E T \in 1..MaxT :
       \E r \in get_step_outputs(T, args.generation_len,
                                 args.z_amort, args.concrete) :
           /\ window' = Called("test_step", T, args.generation_len, r)
           /\ UNCHANGED notWindow

\* The step returns (or its exception propagates): its locals are dropped.
step_return_window ==
    /\ window # NoCall
    /\ window' = NoCall
    /\ UNCHANGED notWindow

NextWindow ==
    \/ training_step_window
    \/ validation_step_window
    \/ test_step_window
    \/ step_return_window

SpecWindow == InitWindow /\ [][NextWindow]_vars

(***************************************************************************)
(* Loss composition: get_step_losses, and the loss that training_step and  *)
(* validation_step build from its terms.  Losses are fixed-point numbers:  *)
(* One stands for 1.0, and the terms and weights the model draws are whole *)
(* multiples of One, so that every product below is exact.                 *)
(***************************************************************************)
anneal_update == 1000       \* determine_annealing_factor(.., anneal_update=1000)
One == anneal_update

FMul(a, b) == (a * b) \div One

\* determine_annealing_factor(n_updates, anneal_update): a linear ramp from 0
\* at n_updates = 0 to 1 at anneal_update, held at 1 from there on.
determine_annealing_factor(n) ==
    (Min(n, anneal_update) * One) \div anneal_update

Units(k) == { i * One : i \in 0..k }

\* get_step_losses: the likelihood, the encoder's KL term and the
\* model-specific loss (0.0 unless a dynamics model overrides it).
get_step_losses ==
    [likelihood : Units(MaxTerm), klz : Units(MaxTerm),
     dynamics_loss : Units(MaxTerm)]

\* training_step: loss = likelihood + kl_factor * ((z0_beta * klz) + dynamics_loss)
training_loss_unannealed_dynamics(a, t, kl_factor) ==
    t.likelihood + FMul(kl_factor, FMul(a.z0_beta, t.klz)) + t.dynamics_loss
training_loss(a, t, kl_factor) ==
    t.likelihood + FMul(kl_factor, FMul(a.z0_beta, t.klz) + t.dynamics_loss)

\* validation_step: loss = likelihood + dynamics_loss
validation_loss_with_kl(a, t) ==
    t.likelihood + FMul(a.z0_beta, t.klz) + t.dynamics_loss
validation_loss(a, t) ==
    t.likelihood + t.dynamics_loss

\* args.dynamics_beta is the weight the documentation configures for the
\* auxiliary term; no handler reads it.
LossArgs ==
    [z0_beta : Units(MaxBeta), dynamics_beta : Units(MaxBeta)]

AnnealStride == anneal_update \div AnnealParts

\* self.n_updates += 1 (line 219).
count_update_skipped(n) == n
count_update(n) == n + 1

InitLoss ==
    /\ args \in LossArgs
    /\ n_updates \in { k * AnnealStride : k \in 0..(AnnealParts + 1) }
    /\ elbo = NoElbo
    /\ window = NoCall
    /\ loader = [train |-> 1, val |-> 1]
    /\ ConstructedCtl
    /\ NoLayers
    /\ NothingPersisted

\* The model follows MaxStepsLoss training steps from each sampled value of
\* the counter.
training_step_loss ==
    /\ elbo = NoElbo
    /\ n_updates % AnnealStride < MaxStepsLoss
    /\ \E t \in get_step_losses :
        LET kl_factor == determine_annealing_factor(n_updates)
        IN  elbo' = [step |-> "training_step", likelihood |-> t.likelihood,
                     klz |-> t.klz, dynamics_loss |-> t.dynamics_loss,
                     kl_factor |-> kl_factor,
                     loss |-> training_loss(args, t, kl_factor)]
    /\ n_updates' = count_update(n_updates)
    /\ UNCHANGED notElbo

validation_step_loss ==
    /\ elbo = NoElbo
    /\ \E t \in get_step_losses :
        elbo' = [step |-> "validation_step", likelihood |-> t.likelihood,
                 klz |-> t.klz, dynamics_loss |-> t.dynamics_loss,
                 kl_factor |-> None, loss |-> validation_loss(args, t)]
    /\ UNCHANGED <<n_updates, args, window, ctlVars, outVars, sideVars>>

\* The step returns its output record: its locals are dropped.
step_return_loss ==
    /\ elbo # NoElbo
    /\ elbo' = NoElbo
    /\ UNCHANGED <<n_updates, args, window, ctlVars, outVars, sideVars>>

NextLoss ==
    \/ training_step_loss
    \/ validation_step_loss
    \/ step_return_loss

SpecLoss == InitLoss /\ [][NextLoss]_vars

(***************************************************************************)
(* Persistence of the test artifacts: test_epoch_end from line 362 on.     *)
(* A file of the output directory is named test_<prefix><suffix>; the      *)
(* model holds it as <<prefix, suffix>>.  A metric is a decimal number     *)
(* with four fractional digits, held as the integer of its ten-thousandths;*)
(* a text file's contents is the sequence of its characters.               *)
(***************************************************************************)
Digits == <<"0", "1", "2", "3", "4", "5", "6", "7", "8", "9">>

RECURSIVE IntStr(_)
IntStr(n) ==
    IF n < 10 THEN <<Digits[n + 1]>>
    ELSE IntStr(n \div 10) \o <<Digits[(n % 10) + 1]>>

RECURSIVE Pad(_, _)
Pad(n, width) ==
    IF width = 0 THEN <<>>
    ELSE Pad(n \div 10, width - 1) \o <<Digits[(n % 10) + 1]>>

RECURSIVE StripZeros(_)
StripZeros(str) ==
    IF Len(str) > 1 /\ str[Len(str)] = "0"
    THEN StripZeros(SubSeq(str, 1, Len(str) - 1))
    ELSE str

\* f"{x}": the shortest decimal that reads back as x.
FormatRepr(x) ==
    IntStr(x \div 10000) \o <<".">> \o StripZeros(Pad(x % 10000, 4))

\* f"{x:0.3f}": x rounded to three decimals (the metrics drawn have no
\* fourth digit 5, where the binary value of the float decides).
FormatFixed3(x) ==
    LET thousandths == (x + 5) \div 10
    IN  IntStr(thousandths \div 1000) \o <<".">> \o Pad(thousandths % 1000, 3)

RECURSIVE Join(_, _)
Join(sep, parts) ==
    IF parts = <<>> THEN <<>>
    ELSE IF Len(parts) = 1 THEN parts[1]
    ELSE parts[1] \o sep \o Join(sep, Tail(parts))

\* Lines 404-405: the eight numbers, comma-joined.
excel_raw(m) ==
    Join(<<",">>, << FormatRepr(m.mse_mean), FormatRepr(m.mse_std),
                    FormatRepr(m.vpt_mean), FormatRepr(m.vpt_std),
                    FormatRepr(m.dst_mean), FormatRepr(m.dst_std),
                    FormatRepr(m.vpd_mean), FormatRepr(m.vpd_std) >>)

MeanStd(mean, std) ==
    FormatFixed3(mean) \o <<"(">> \o FormatFixed3(std) \o <<")">>

\* Lines 410-413: mean(std) for mse, vpt, dst, vpd, comma-joined.
excel_tuples(m) ==
    Join(<<",">>, << MeanStd(m.mse_mean, m.mse_std),
                    MeanStd(m.vpt_mean, m.vpt_std),
                    MeanStd(m.dst_mean, m.dst_std),
                    MeanStd(m.vpd_mean, m.vpd_std) >>)

\* open(path, 'w') / np.save / savefig: the file is created or overwritten.
Write(files, path, contents) ==
    [p \in (DOMAIN files) \cup {path} |->
        IF p = path THEN contents ELSE files[p]]

RECURSIVE WriteAll(_, _)
WriteAll(files, writes) ==
    IF writes = <<>> THEN files
    ELSE WriteAll(Write(files, writes[1][1], writes[1][2]), Tail(writes))

\* The files lines 368-413 write, in order.
saved_files(a, m) ==
    << << <<a.dataset, "_pixelmse.npy">>,      <<"npy">> >>,
       << <<a.dataset, "_recons.npy">>,        <<"npy">> >>,
       << <<a.dataset, "_images.npy">>,        <<"npy">> >>,
       << <<a.dataset_split, "_labels.npy">>,  <<"npy">> >>,
       << <<a.dataset, "_examples.png">>,      <<"png">> >>,
       << <<a.dataset_split, "_Z0tsne.png">>,  <<"png">> >>,
       << <<a.dataset, "_metrics.json">>,      <<"json">> >>,
       << <<a.dataset, "_excel.txt">>,         excel_raw(m) >>,
       << <<a.dataset_split, "_excel.txt">>,   excel_tuples(m) >> >>

\* Lines 362-413: the output directory is made if it does not exist, then
\* the files are written into it.
persist(a, m, dir) ==
    [exists |-> TRUE, files |-> WriteAll(dir.files, saved_files(a, m))]

MeanValues == { 12340 + 3332 * k : k \in 0..MaxMean }
StdValues == { 560 + 9436 * k : k \in 0..MaxStd }

Metrics ==
    [mse_mean : MeanValues, mse_std : StdValues,
     vpt_mean : MeanValues, vpt_std : StdValues,
     dst_mean : MeanValues, dst_std : StdValues,
     vpd_mean : MeanValues, vpd_std : StdValues]

Datasets == {"pendulum", "pendulum_test"}

InitPersist ==
    /\ args \in [dataset : Datasets, dataset_split : Datasets]
    /\ metrics = NoMetrics
    /\ output_dir \in [exists : BOOLEAN, files : {<<>>}]
    /\ n_updates = 0
    /\ window = NoCall
    /\ elbo = NoElbo
    /\ loader = [train |-> 1, val |-> 1]
    /\ ConstructedCtl
    /\ NoLayers

\* test_epoch_end, lines 339-413, on the statistics of the stacked arrays.
test_epoch_end_persist ==
    /\ metrics = NoMetrics
    /\ \E m \in Metrics :
        /\ metrics' = m
        /\ output_dir' = persist(args, m, output_dir)
    /\ UNCHANGED <<args, window, n_updates, elbo, ctlVars, sideVars>>

NextPersist == test_epoch_end_persist

SpecPersist == InitPersist /\ [][NextPersist]_vars

(***************************************************************************)
(* The controller: the hooks the training framework calls, in the order it *)
(* calls them.  The framework keeps the records the steps return for the   *)
(* running epoch and hands them to the matching *_epoch_end hook; an       *)
(* exception a hook raises ends the run.                                   *)
(***************************************************************************)
plot_every == 10    \* training_epoch_end: current_epoch % 10

Raise(handler, exception, line) ==
    [handler |-> handler, exception |-> exception, line |-> line]

Running == raised = NoException

\* Where get_step_outputs raises: randint (line 151), forward (line 56).
RaisedAt(outcome) == IF outcome = "ValueError" THEN 151 ELSE 56

\* The batches the controller is fed: the longest sequence too short for a
\* window, and the shortest one long enough.
BatchLens(a, generation_len) ==
    (a.z_amort + 2 * generation_len) .. (a.z_amort + 2 * generation_len + 1)

\* training_step: out = {"loss", "labels"}, plus preds and images
\* if batch_idx < self.args.batches_to_save; with the step's record goes the
\* kl_factor it logged (line 213).
train_retains(batch_idx, a) == batch_idx < a.batches_to_save
training_out(batch_idx, a, kl_factor) ==
    [batch_idx |-> batch_idx,
     kl_factor |-> kl_factor,
     keys |-> {"loss", "labels"}
              \cup (IF train_retains(batch_idx, a) THEN {"preds", "images"}
                    ELSE {})]

\* validation_step: out = {"loss"}, plus preds and images if batch_idx == 0.
val_retains_below_batches_to_save(batch_idx, a) == batch_idx < a.batches_to_save
val_retains(batch_idx, a) == batch_idx = 0
validation_out(batch_idx, a) ==
    [batch_idx |-> batch_idx,
     keys |-> {"loss"}
              \cup (IF val_retains(batch_idx, a) THEN {"preds", "images"}
                    ELSE {})]

\* training_epoch_end returns at once unless current_epoch % 10 == 0.
plot_epoch_every_four(epoch) == epoch % 4 = 0
plot_epoch(epoch) == epoch % plot_every = 0

CtlArgs ==
    [z_amort : {1}, generation_len : 1..2, generation_validation_len : {1},
     generation_varying : BOOLEAN, concrete : BOOLEAN,
     batches_to_save : 0..MaxSave, exptype : {"None", "exp"},
     dataset : {"pendulum"}, dataset_split : {"pendulum"}]

Init ==
    /\ args \in CtlArgs
    /\ loader \in [train : 1..MaxBatches, val : 1..MaxBatches]
    /\ n_updates = 0
    /\ window = NoCall
    /\ elbo = NoElbo
    /\ ConstructedCtl
    /\ NoLayers
    /\ NothingPersisted

notCtl == <<args, loader, window, elbo, sideVars>>

\* on_train_start: sets version_path, saves params.json, makes the image
\* directory if it does not exist.  The sanity validation loop, if any, is
\* over by then.
on_train_start ==
    /\ Running /\ ~fit /\ val # "running"
    /\ fit' = TRUE
    /\ version_path' = TRUE
    /\ images_dir' = [images_dir EXCEPT !.exists = TRUE]
    /\ val' = "idle"
    /\ UNCHANGED <<notCtl, n_updates, current_epoch, train_outputs,
                   val_outputs, test_outputs, plots, experiments, stacked,
                   raised, outVars>>

\* on_validation_start: sets version_path and makes the image directory if
\* it does not exist; the validation loop begins.
on_validation_start ==
    /\ Running /\ val = "idle" /\ current_epoch <= MaxEpoch
    /\ version_path' = TRUE
    /\ images_dir' = [images_dir EXCEPT !.exists = TRUE]
    /\ val' = "running"
    /\ val_outputs' = <<>>
    /\ UNCHANGED <<notCtl, n_updates, current_epoch, fit, train_outputs,
                   test_outputs, plots, experiments, stacked, raised, outVars>>

training_step ==
    /\ Running /\ fit /\ val # "running"
    /\ Len(train_outputs) < loader.train
    /\ current_epoch <= MaxEpoch
    /\ LET batch_idx == Len(train_outputs)
       IN  \/ /\ train_generation_lens(args) = {}
              /\ raised' = Raise("training_step", "ValueError", 191)
              /\ UNCHANGED <<n_updates, train_outputs>>
           \/ \E g \in train_generation_lens(args) :
              \E T \in BatchLens(args, g) :
              \E r \in get_step_outputs(T, g, args.z_amort, args.concrete) :
                  IF r.outcome = "returned"
                  THEN /\ n_updates' = count_update(n_updates)
                       /\ train_outputs' =
                              Append(train_outputs,
                                     training_out(batch_idx, args,
                                         determine_annealing_factor(n_updates)))
                       /\ UNCHANGED raised
                  ELSE /\ raised' = Raise("training_step", r.outcome,
                                          RaisedAt(r.outcome))
                       /\ UNCHANGED <<n_updates, train_outputs>>
    /\ UNCHANGED <<notCtl, current_epoch, version_path, fit, val, val_outputs,
                   test_outputs, images_dir, plots, experiments, stacked, outVars>>

\* training_epoch_end, then the framework's end of the epoch: the records
\* are released and current_epoch advances.
training_epoch_end ==
    /\ Running /\ fit /\ val = "done"
    /\ Len(train_outputs) = loader.train
    /\ IF ~plot_epoch(current_epoch)
       THEN /\ train_outputs' = <<>>
            /\ current_epoch' = current_epoch + 1
            /\ val' = "idle"
            /\ UNCHANGED <<images_dir, plots, experiments, raised>>
       ELSE IF ~({"images", "preds"} \subseteq train_outputs[1].keys)
       THEN /\ raised' = Raise("training_epoch_end", "KeyError", 235)
            /\ UNCHANGED <<train_outputs, current_epoch, val, images_dir,
                           plots, experiments>>
       ELSE /\ images_dir' =
                  [images_dir EXCEPT
                       !.files = @ \cup {<<current_epoch, "train">>}]
            /\ plots' = plots + 1
            /\ experiments' = IF args.exptype # "None"
                              THEN images_dir'.files ELSE experiments
            /\ train_outputs' = <<>>
            /\ current_epoch' = current_epoch + 1
            /\ val' = "idle"
            /\ UNCHANGED raised
    /\ UNCHANGED <<notCtl, n_updates, version_path, fit, val_outputs,
                   test_outputs, stacked, outVars>>

validation_step ==
    /\ Running /\ val = "running"
    /\ Len(val_outputs) < loader.val
    /\ LET batch_idx == Len(val_outputs)
           g == args.generation_validation_len
       IN  \E T \in BatchLens(args, g) :
           \E r \in get_step_outputs(T, g, args.z_amort, args.concrete) :
               IF r.outcome = "returned"
               THEN /\ val_outputs' =
                          Append(val_outputs, validation_out(batch_idx, args))
                    /\ UNCHANGED raised
               ELSE /\ raised' = Raise("validation_step", r.outcome,
                                       RaisedAt(r.outcome))
                    /\ UNCHANGED val_outputs
    /\ UNCHANGED <<notCtl, n_updates, current_epoch, version_path, fit, val,
                   train_outputs, test_outputs, images_dir, plots, experiments,
                   stacked, outVars>>

\* validation_epoch_end renders outputs[0]; the framework then releases the
\* records of the loop.
validation_epoch_end ==
    /\ Running /\ val = "running"
    /\ Len(val_outputs) = loader.val
    /\ IF {"images", "preds"} \subseteq val_outputs[1].keys
       THEN /\ images_dir' =
                  [images_dir EXCEPT
                       !.files = @ \cup {<<current_epoch, "val">>}]
            /\ val' = "done"
            /\ val_outputs' = <<>>
            /\ UNCHANGED raised
       ELSE /\ raised' = Raise("validation_epoch_end", "KeyError", 293)
            /\ UNCHANGED <<images_dir, val, val_outputs>>
    /\ UNCHANGED <<notCtl, n_updates, current_epoch, version_path, fit,
                   train_outputs, test_outputs, plots, experiments, stacked, outVars>>

\* What get_step_outputs returns (line 163), and the names test_step
\* unpacks it into (line 304).
step_outputs_tuple == <<"images", "states", "labels", "preds", "embeddings">>
test_step_targets ==
    <<"images", "images_rev", "states", "labels", "preds", "embeddings">>

Rows(batch_idx) == [r \in 1..BatchSize |-> <<batch_idx, r>>]

test_record(batch_idx) ==
    [states |-> Rows(batch_idx), embeddings |-> Rows(batch_idx),
     preds |-> Rows(batch_idx), images |-> Rows(batch_idx),
     labels |-> Rows(batch_idx)]

test_step ==
    /\ Running /\ val # "running"
    /\ Len(test_outputs) < MaxBatches
    /\ LET batch_idx == Len(test_outputs)
           g == args.generation_len
       IN  \E T \in BatchLens(args, g) :
           \E r \in get_step_outputs(T, g, args.z_amort, args.concrete) :
               IF r.outcome # "returned"
               THEN /\ raised' = Raise("test_step", r.outcome,
                                       RaisedAt(r.outcome))
                    /\ UNCHANGED test_outputs
               ELSE IF Len(step_outputs_tuple) # Len(test_step_targets)
               THEN /\ raised' = Raise("test_step", "ValueError", 304)
                    /\ UNCHANGED test_outputs
               ELSE /\ test_outputs' =
                          Append(test_outputs, test_record(batch_idx))
                    /\ UNCHANGED raised
    /\ UNCHANGED <<notCtl, n_updates, current_epoch, version_path, fit, val,
                   train_outputs, val_outputs, images_dir, plots, experiments,
                   stacked, outVars>>

RECURSIVE Flatten(_)
Flatten(list) ==
    IF list = <<>> THEN <<>> ELSE Head(list) \o Flatten(Tail(list))

\* np.vstack raises ValueError on an empty list of arrays.
vstack(list) ==
    IF list = <<>> THEN [ok |-> FALSE, rows |-> <<>>]
    ELSE [ok |-> TRUE, rows |-> Flatten(list)]

\* The lists test_epoch_end fills from the records (lines 314-319): nothing
\* is appended to embeddings.
test_collected(outputs) ==
    [preds |-> [i \in 1..Len(outputs) |-> outputs[i].preds],
     images |-> [i \in 1..Len(outputs) |-> outputs[i].images],
     states |-> [i \in 1..Len(outputs) |-> outputs[i].states],
     embeddings |-> <<>>,
     labels |-> [i \in 1..Len(outputs) |-> outputs[i].labels]]

\* The first np.vstack of lines 321-325 that raises, if any.
FirstFailedStack(c) ==
    IF ~vstack(c.preds).ok THEN 321
    ELSE IF ~vstack(c.images).ok THEN 322
    ELSE IF ~vstack(c.states).ok THEN 323
    ELSE IF ~vstack(c.embeddings).ok THEN 324
    ELSE IF ~vstack(c.labels).ok THEN 325
    ELSE 0

\* test_epoch_end on the records of n test batches.
test_epoch_end ==
    /\ Running /\ val # "running"
    /\ \E n \in 0..MaxBatches :
       LET outputs == [b \in 1..n |-> test_record(b - 1)]
           c == test_collected(outputs)
       IN  IF FirstFailedStack(c) # 0
           THEN /\ raised' = Raise("test_epoch_end", "ValueError",
                                   FirstFailedStack(c))
                /\ UNCHANGED <<stacked, outVars>>
           ELSE /\ stacked' = [f \in DOMAIN c |-> vstack(c[f]).rows]
                /\ \E m \in Metrics :
                       /\ metrics' = m
                       /\ output_dir' = persist(args, m, output_dir)
                /\ UNCHANGED raised
    /\ UNCHANGED <<notCtl, n_updates, current_epoch, version_path, fit, val,
                   train_outputs, val_outputs, test_outputs, images_dir, plots,
                   experiments>>

Next ==
    \/ on_train_start
    \/ on_validation_start
    \/ training_step
    \/ training_epoch_end
    \/ validation_step
    \/ validation_epoch_end
    \/ test_step
    \/ test_epoch_end

Spec == Init /\ [][Next]_vars

(***************************************************************************)
(* Gaussian.forward (src/utils/layers.py, lines 44-63).                    *)
(*                                                                         *)
(* A tensor is the sequence of its elements; an element is held in tenths  *)
(* (0.1 is 1), or is NaN.                                                  *)
(***************************************************************************)
MaxDim == 2         \* most elements of the layer's output tensors

Tenth == 10
NaN == 0 - 1000000

explosion_low == -100
explosion_high == 85

\* Comparisons of floats: any comparison with NaN is False.
Lt(a, b) == a # NaN /\ b # NaN /\ a < b

\* Line 58, for one element: v < -100 or v > 85.
explodes_inclusive(v) ==
    v # NaN /\ (v <= explosion_low * Tenth \/ v >= explosion_high * Tenth)
explodes(v) ==
    Lt(v, explosion_low * Tenth) \/ Lt(explosion_high * Tenth, v)

\* (t < -100).any() or (t > 85).any()
any_explodes(t) == \E i \in DOMAIN t : explodes(t[i])

\* torch.full_like(mu, fill_value=0.1)
full_like(t, fill) == [i \in DOMAIN t |-> fill]

\* reparameterize, lines 37-42: z = mu + noise * exp(0.5 * logvar), each
\* element held by its three operands.
reparameterize(mu, logvar, noise) ==
    [i \in DOMAIN mu |->
        [mu |-> mu[i], noise |-> noise[i], logvar |-> logvar[i]]]

\* The outputs a linear layer can produce around the two thresholds.
LayerValues ==
    {NaN, explosion_low * Tenth - 1, explosion_low * Tenth, 1,
     explosion_high * Tenth, explosion_high * Tenth + 1}
Noises == {0 - 1, 1}
Tensors(n, values) == [1..n -> values]

InitGaussian ==
    /\ gaussian \in [called : {FALSE}, fix_variance : BOOLEAN]
    /\ procs = NoProcs
    /\ args \in [dataset : {"pendulum"}]
    /\ n_updates = 0
    /\ window = NoCall
    /\ elbo = NoElbo
    /\ loader = [train |-> 1, val |-> 1]
    /\ ConstructedCtl
    /\ NothingPersisted

notGaussian == <<args, window, n_updates, elbo, ctlVars, outVars, procs>>

Gaussian_forward ==
    /\ ~gaussian.called
    /\ \E n \in 1..MaxDim :
       \E mu \in Tensors(n, LayerValues) :
       \E out \in Tensors(n, LayerValues) :
       \E noise \in Tensors(n, Noises) :
          LET logvar == IF gaussian.fix_variance
                        THEN full_like(mu, 1)
                        ELSE out
          IN  gaussian' =
                  [called |-> TRUE,
                   fix_variance |-> gaussian.fix_variance,
                   mu |-> mu,
                   logvar |-> logvar,
                   printed |-> any_explodes(mu) \/ any_explodes(logvar),
                   returned |-> <<mu, logvar,
                                  reparameterize(mu, logvar, noise)>>]
    /\ UNCHANGED notGaussian

\* The caller takes the triple; the layer is ready for its next input.
Gaussian_return ==
    /\ gaussian.called
    /\ gaussian' = [called |-> FALSE, fix_variance |-> gaussian.fix_variance]
    /\ UNCHANGED notGaussian

NextGaussian ==
    \/ Gaussian_forward
    \/ Gaussian_return

SpecGaussian == InitGaussian /\ [][NextGaussian]_vars

(***************************************************************************)
(* Directory creation by several processes (src/models/CommonDynamics.py,  *)
(* lines 121-123, 133-135, 362-365): each runs                             *)
(*     if not os.path.exists(path): os.mkdir(path)                         *)
(* on the file system they share. The test and the creation are two        *)
(* system calls; other processes run between them.                         *)
(***************************************************************************)
NumProcs == 2       \* processes running the hooks

Hooks == {"on_train_start", "on_validation_start", "test_epoch_end"}

\* The directory a hook creates: <version_path>/images/ or
\* <ckpt_path>/test_<dataset>.
HookDir(hook) == IF hook = "test_epoch_end" THEN "output_dir" ELSE "images_dir"

DirExists(dir) ==
    IF dir = "output_dir" THEN output_dir.exists ELSE images_dir.exists

NotInHook == [hook |-> "none", pc |-> "idle"]

InitMkdir ==
    /\ procs = [p \in 1..NumProcs |-> NotInHook]
    /\ gaussian = NoForward
    /\ args \in [dataset : {"pendulum"}]
    /\ n_updates = 0
    /\ window = NoCall
    /\ elbo = NoElbo
    /\ loader = [train |-> 1, val |-> 1]
    /\ ConstructedCtl
    /\ NothingPersisted

notMkdir == <<args, window, n_updates, elbo, loader, current_epoch,
              version_path, fit, val, train_outputs, val_outputs,
              test_outputs, plots, experiments, stacked, raised, metrics,
              gaussian>>

\* A process enters a hook (again, if its last one returned) and evaluates
\* os.path.exists(path): the directory is there and the hook goes on without
\* creating it, or it is not and the process is about to call os.mkdir.
path_exists(p) ==
    /\ procs[p].pc \in {"idle", "returned"}
    /\ \E hook \in Hooks :
          procs' = [procs EXCEPT ![p] =
                       [hook |-> hook,
                        pc |-> IF DirExists(HookDir(hook)) THEN "returned"
                               ELSE "mkdir"]]
    /\ UNCHANGED <<notMkdir, images_dir, output_dir>>

\* os.mkdir(path): creates the directory, or raises FileExistsError if the
\* path exists by now.
mkdir(p) ==
    /\ procs[p].pc = "mkdir"
    /\ LET dir == HookDir(procs[p].hook)
       IN  IF DirExists(dir)
           THEN /\ procs' = [procs EXCEPT ![p].pc = "FileExistsError"]
                /\ UNCHANGED <<images_dir, output_dir>>
           ELSE /\ procs' = [procs EXCEPT ![p].pc = "returned"]
                /\ IF dir = "output_dir"
                   THEN /\ output_dir' = [output_dir EXCEPT !.exists = TRUE]
                        /\ UNCHANGED images_dir
                   ELSE /\ images_dir' = [images_dir EXCEPT !.exists = TRUE]
                        /\ UNCHANGED output_dir
    /\ UNCHANGED notMkdir

NextMkdir ==
    \/ \E p \in 1..NumProcs : path_exists(p)
    \/ \E p \in 1..NumProcs : mkdir(p)

SpecMkdir == InitMkdir /\ [][NextMkdir]_vars

(***************************************************************************)
(* Claims on the sampled window (checked under SpecWindow).                *)
(***************************************************************************)
Sampled == window.random_start # None

\* C1 (as stated): every sampled start satisfies z_amort <= random_start and
\* random_start + generation_len + z_amort <= T.
C1_StartWithinAmortAndLength ==
    Sampled =>
        /\ args.z_amort <= window.random_start
        /\ window.random_start + window.generation_len + args.z_amort <= window.T

\* C1 (amended): every sampled start satisfies generation_len <= random_start
\* and random_start + generation_len + z_amort <= T, where generation_len is
\* the length handed to get_step_outputs (the drawn one in varying mode).
C1_StartWithinGenAndLength ==
    Sampled =>
        /\ window.generation_len <= window.random_start
        /\ window.random_start + window.generation_len + args.z_amort <= window.T

\* C1 (witness): a start drawn in varying-length mode, at its lower bound
\* and below the amortization window.
C1_Witness ==
    /\ window.step = "training_step"
    /\ args.generation_varying
    /\ window.outcome = "returned"
    /\ window.generation_len < args.generation_len
    /\ window.random_start = window.generation_len
    /\ window.random_start < args.z_amort

Scenario(T) ==
    /\ window.step # "none"
    /\ window.T = T
    /\ args.z_amort = 5
    /\ window.generation_len = 10
    /\ (window.step = "training_step" => ~args.generation_varying)
    /\ args.concrete

\* C4 (as stated): length 20, amortization window 5, fixed rollout 10: the
\* call returns images, states and predictions of time dimension 10, with
\* random_start drawn from [5, 5].
C4_Length20Returns ==
    Scenario(20) =>
        /\ window.outcome = "returned"
        /\ window.images = 10 /\ window.states = 10 /\ window.preds = 10
        /\ window.random_start = 5

\* C4 (amended): with length 20, amortization window 5 and fixed rollout 10
\* no start can be drawn (the range [10, 5) is empty, ValueError); with
\* length 26 the call returns images, states and predictions of time
\* dimension 10 and random_start is drawn from the single-value range
\* [10, 10].
C4_Length20RaisesLength26Returns ==
    /\ Scenario(20) => window.outcome = "ValueError"
    /\ Scenario(26) =>
        /\ window.outcome = "returned"
        /\ window.images = 10 /\ window.states = 10 /\ window.preds = 10
        /\ window.random_start = 10

\* C4 (witness): the length-26 scenario, sampled in a validation step.
C4_Witness ==
    /\ Scenario(26)
    /\ window.step = "validation_step"
    /\ window.outcome = "returned"
    /\ window.random_start = 10

GetStepOutputsCalled == window.step # "none" /\ window.generation_len # None

\* C5 (as stated): whenever the sequence length exceeds
\* z_amort + generation_len, get_step_outputs samples a window and reaches
\* the forward pass.
C5_SamplesWhenLongerThanAmortPlusGen ==
    (GetStepOutputsCalled /\ window.T > args.z_amort + window.generation_len)
        => window.outcome \in {"returned", "NotImplementedError"}

\* C5 (amended): get_step_outputs samples a window and reaches the forward
\* pass exactly when the sequence length exceeds
\* z_amort + 2 * generation_len; every shorter sequence raises ValueError.
C5_SamplesIffLongerThanAmortPlusTwoGen ==
    GetStepOutputsCalled =>
        /\ (window.T > args.z_amort + 2 * window.generation_len)
              <=> window.outcome \in {"returned", "NotImplementedError"}
        /\ (window.T <= args.z_amort + 2 * window.generation_len)
              <=> window.outcome = "ValueError"

\* C5 (witness): the shortest admissible sequence: sampled, sliced, and the
\* forward pass returned.
C5_Witness ==
    /\ GetStepOutputsCalled
    /\ window.T = args.z_amort + 2 * window.generation_len + 1
    /\ window.outcome = "returned"
    /\ window.images = window.generation_len

(***************************************************************************)
(* Claims on the loss composition (checked under SpecLoss).                *)
(***************************************************************************)

\* C2 (as stated): the training loss is likelihood + annealing_factor *
\* (z0_beta * KL + dynamics_beta * auxiliary_loss).
C2_TrainLossScalesAuxiliaryByBeta ==
    elbo.step = "training_step" =>
        elbo.loss = elbo.likelihood
                    + FMul(elbo.kl_factor,
                           FMul(args.z0_beta, elbo.klz)
                           + FMul(args.dynamics_beta, elbo.dynamics_loss))

\* C2 (amended): the training loss is likelihood + annealing_factor *
\* (z0_beta * KL + auxiliary_loss): the auxiliary term is annealed but has
\* no beta weight of its own.
C2_TrainLossAuxiliaryUnweighted ==
    elbo.step = "training_step" =>
        /\ elbo.kl_factor = determine_annealing_factor(n_updates - 1)
        /\ elbo.loss * One = elbo.likelihood * One
                             + elbo.kl_factor * (FMul(args.z0_beta, elbo.klz)
                                                 + elbo.dynamics_loss)

\* C2 (witness): a training step in the middle of the ramp with every term
\* present and a configured dynamics_beta other than 1.
C2_Witness ==
    /\ elbo.step = "training_step"
    /\ elbo.kl_factor > 0 /\ elbo.kl_factor < One
    /\ elbo.likelihood > 0 /\ elbo.klz > 0 /\ elbo.dynamics_loss > 0
    /\ args.z0_beta > One /\ args.dynamics_beta > One

\* C3 (as stated): the validation loss is the training composition without
\* the annealing factor, the z0 KL term entering at weight 1 times its beta
\* (the auxiliary term weighted as in training, or by its documented beta).
C3_ValLossIncludesKl ==
    elbo.step = "validation_step" =>
        \E w \in {One, args.dynamics_beta} :
            elbo.loss = elbo.likelihood + FMul(args.z0_beta, elbo.klz)
                        + FMul(w, elbo.dynamics_loss)

\* C3 (amended): the validation loss is likelihood + auxiliary_loss: no
\* annealing factor, and the z0 KL term is left out.
C3_ValLossOmitsKl ==
    elbo.step = "validation_step" =>
        elbo.loss = elbo.likelihood + elbo.dynamics_loss

\* C3 (witness): a validation step early in the ramp whose weighted KL term
\* is not zero.
C3_Witness ==
    /\ elbo.step = "validation_step"
    /\ n_updates < anneal_update
    /\ elbo.klz > 0 /\ args.z0_beta > 0
    /\ elbo.likelihood > 0 /\ elbo.dynamics_loss > 0

(***************************************************************************)
(* Claims on the controller (checked under Spec).                          *)
(***************************************************************************)
Retained(out) == {"preds", "images"} \subseteq out.keys

\* C6 (as stated): every test_step on a batch that get_step_outputs accepts
\* yields a record of states, embeddings, predictions, images and labels,
\* and test_epoch_end on a non-empty list of such records concatenates all
\* five fields: neither hook raises.  (Line 304 is reached only once
\* get_step_outputs has returned; line 321 is where an empty list of records
\* fails.)
C6_TestPhaseYieldsAndConcatenates ==
    /\ ~(raised.handler = "test_step" /\ raised.line = 304)
    /\ ~(raised.handler = "test_epoch_end" /\ raised.line # 321)

\* C7 (as stated): validation_step retains predictions and images exactly
\* for the batches with index below batches_to_save.
C7_ValRetainsBelowBatchesToSave ==
    \A i \in 1..Len(val_outputs) :
        Retained(val_outputs[i])
            <=> (val_outputs[i].batch_idx < args.batches_to_save)

\* C7 (amended): validation_step retains predictions and images exactly for
\* the batch of index 0, whatever batches_to_save is.
C7_ValRetainsBatchZeroOnly ==
    \A i \in 1..Len(val_outputs) :
        /\ val_outputs[i].batch_idx = i - 1
        /\ Retained(val_outputs[i]) <=> (val_outputs[i].batch_idx = 0)

\* C7 (witness): a validation loop past its second batch with
\* batches_to_save = 2.
C7_Witness ==
    /\ fit /\ val = "running"
    /\ Len(val_outputs) >= 2
    /\ args.batches_to_save = 2

TrainImages == { f \in images_dir.files : f[2] = "train" }

Persisted == metrics # NoMetrics

ArtifactSuffixes ==
    {"_recons.npy", "_images.npy", "_labels.npy", "_examples.png",
     "_Z0tsne.png", "_metrics.json", "_excel.txt"}

\* C9 (as stated): after a test run, each of the artifacts (recons, images,
\* labels, examples, Z0tsne, metrics, excel) is on disk, all of them under
\* one common file-name prefix.
C9_ArtifactsShareOnePrefix ==
    Persisted =>
        \E prefix \in Datasets :
            /\ \A suffix \in ArtifactSuffixes :
                   <<prefix, suffix>> \in DOMAIN output_dir.files
            /\ \A p \in DOMAIN output_dir.files :
                   p[2] \in ArtifactSuffixes => p[1] = prefix

\* C10 (as stated): every _excel.txt file on disk after a test run holds
\* the comma-joined mean(std) tuples of mse, vpt, dst, vpd, each number
\* with three decimals.
C10_EveryExcelFileHoldsTuples ==
    Persisted =>
        \A p \in DOMAIN output_dir.files :
            p[2] = "_excel.txt" =>
                output_dir.files[p] =
                    Join(<<",">>,
                         << MeanStd(metrics.mse_mean, metrics.mse_std),
                            MeanStd(metrics.vpt_mean, metrics.vpt_std),
                            MeanStd(metrics.dst_mean, metrics.dst_std),
                            MeanStd(metrics.vpd_mean, metrics.vpd_std) >>)

(***************************************************************************)
(* Claims on the Gaussian layer (checked under SpecGaussian).              *)
(***************************************************************************)
BelowOrAbove(v) == v # NaN /\ (v < -1000 \/ v > 850)

\* C11: Gaussian.forward emits the diagnostic exactly when some mean or
\* log-variance element is below -100 or above 85 (an element equal to -100
\* or to 85 does not trigger it), and with or without the diagnostic it
\* returns the triple (mu, logvar, z) with mu and logvar as computed.
C11_DiagnosticIffOutOfRangeAndTripleReturned ==
    gaussian.called =>
        /\ gaussian.printed <=>
               \/ \E i \in DOMAIN gaussian.mu : BelowOrAbove(gaussian.mu[i])
               \/ \E i \in DOMAIN gaussian.logvar :
                      BelowOrAbove(gaussian.logvar[i])
        /\ Len(gaussian.returned) = 3
        /\ gaussian.returned[1] = gaussian.mu
        /\ gaussian.returned[2] = gaussian.logvar
        /\ DOMAIN gaussian.returned[3] = DOMAIN gaussian.mu

\* C11 (witness): a call whose mean sits exactly on both thresholds and
\* whose log-variance is learned and in range: no diagnostic, triple returned.
C11_Witness ==
    /\ gaussian.called
    /\ ~gaussian.fix_variance
    /\ gaussian.mu = <<-1000, 850>>
    /\ gaussian.logvar = <<850, -1000>>
    /\ ~gaussian.printed
    /\ gaussian.returned[1] = gaussian.mu

(***************************************************************************)
(* Claims on the update counter (checked under Spec).                      *)
(***************************************************************************)
TrainingStepCompleted == Len(train_outputs') = Len(train_outputs) + 1

\* C12: n_updates counts the completed training steps: it starts at 0; a
\* completed training_step raises it by exactly one, after the step's
\* annealing factor was read from the value before; every other step
\* (validation_step, test_step, a training_step that raises in the forward
\* pass, the hooks around them) leaves it as it is, so it never decreases and
\* always equals the number of training steps completed so far.
C12_CounterCountsCompletedTrainingSteps ==
    /\ n_updates = 0
    /\ [][IF TrainingStepCompleted
          THEN /\ n_updates' = n_updates + 1
               /\ train_outputs'[Len(train_outputs')].kl_factor =
                      determine_annealing_factor(n_updates)
          ELSE n_updates' = n_updates]_vars
    /\ [](n_updates = current_epoch * loader.train + Len(train_outputs))

\* C12 (witness): a training step of a later epoch raises while getting its
\* outputs, after training steps and a validation loop completed before it;
\* the counter holds the completed steps only.
C12_Witness ==
    /\ raised # NoException
    /\ val = "done"
    /\ raised.handler = "training_step"
    /\ current_epoch >= 1
    /\ Len(train_outputs) >= 1
    /\ n_updates = current_epoch * loader.train + Len(train_outputs)
    /\ n_updates >= 3
    /\ train_outputs[Len(train_outputs)].kl_factor =
           determine_annealing_factor(n_updates - 1)

(***************************************************************************)
(* Claims on directory creation (checked under SpecMkdir).                 *)
(***************************************************************************)
\* C13 (as stated): when several processes run on_train_start,
\* on_validation_start or test_epoch_end in any interleaving, the existence
\* check before the creation guarantees that no process calls os.mkdir on a
\* directory that exists: no creation fails.
C13_NoCreationFails ==
    \A p \in DOMAIN procs :
        /\ procs[p].pc = "mkdir" => ~DirExists(HookDir(procs[p].hook))
        /\ procs[p].pc # "FileExistsError"

====
